---- MODULE Spec2Model ----
(***************************************************************************)
(* Model of NL-to-SQL.py: a linear pipeline that reads the schema of the   *)
(* first table of a SQLite file, asks a remote model for a SQL statement,  *)
(* cleans the answer, executes it and prints the rows.                     *)
(*                                                                         *)
(* Text is modelled as a sequence of characters (one string per           *)
(* character) so that the cleaning steps (strip, fence removal,            *)
(* rstrip(';'), upper) are computed character by character, as Python      *)
(* computes them.                                                          *)
(***************************************************************************)
EXTENDS Integers, Sequences, FiniteSets, TLC

\* ------------------------------------------------------------------------
\* Bounds of the model
\* ------------------------------------------------------------------------
MaxPieces == 3      \* a model response is a concatenation of at most this many pieces
MaxTables == 1      \* number of tables in the database catalog
MaxRows   == 2      \* number of rows stored in the database

\* ------------------------------------------------------------------------
\* Optional values (Python's None | value)
\* ------------------------------------------------------------------------
None == [some |-> FALSE, val |-> <<>>]

Some(v) == [some |-> TRUE, val |-> v]

\* Python truthiness of an Optional[str] / Optional[list]: None and the
\* empty string / empty list are falsy.
Falsy(o) == (~o.some) \/ (o.val = <<>>)

\* ------------------------------------------------------------------------
\* Text helpers (str methods used by the program)
\* ------------------------------------------------------------------------
Whitespace == {" ", "\n", "\t"}

\* The backquote character (it cannot be written inside a TLA+ string)
BQ == "backquote"

FenceSql == <<BQ, BQ, BQ, "s", "q", "l">>

Fence == <<BQ, BQ, BQ>>

FenceSqlLen == 6

FenceLen == 3

KwSelect == <<"S", "E", "L", "E", "C", "T">>

\* str.startswith
StartsWith(s, p) == Len(s) >= Len(p) /\ SubSeq(s, 1, Len(p)) = p

\* str.endswith
EndsWith(s, p) == Len(s) >= Len(p) /\ SubSeq(s, Len(s) - Len(p) + 1, Len(s)) = p

\* str.lstrip()
RECURSIVE LStrip(_)
LStrip(s) ==
    IF s # <<>> /\ Head(s) \in Whitespace THEN LStrip(Tail(s)) ELSE s

\* str.rstrip()
RECURSIVE RStrip(_)
RStrip(s) ==
    IF s # <<>> /\ s[Len(s)] \in Whitespace
    THEN RStrip(SubSeq(s, 1, Len(s) - 1))
    ELSE s

\* str.strip()
Strip(s) == RStrip(LStrip(s))

\* str.rstrip(';')
RECURSIVE RStripSemi(_)
RStripSemi(s) ==
    IF s # <<>> /\ s[Len(s)] = ";"
    THEN RStripSemi(SubSeq(s, 1, Len(s) - 1))
    ELSE s

UpperChar(c) ==
    CASE c = "s" -> "S"
      [] c = "e" -> "E"
      [] c = "l" -> "L"
      [] c = "c" -> "C"
      [] c = "t" -> "T"
      [] c = "q" -> "Q"
      [] c = "a" -> "A"
      [] c = "b" -> "B"
      [] OTHER   -> c

\* str.upper()
Upper(s) == [i \in 1..Len(s) |-> UpperChar(s[i])]

\* s[n:]
DropFirst(s, n) == SubSeq(s, n + 1, Len(s))

\* s[:-n]
DropLast(s, n) == SubSeq(s, 1, Len(s) - n)

\* ------------------------------------------------------------------------
\* generate_sql_query: cleanup of the model's answer (lines 127-136)
\* ------------------------------------------------------------------------
\* Variant that forgets the strip() before rstrip(';')
CleanSqlNoStrip(content) ==
    LET s0 == Strip(content)
        s1 == IF StartsWith(s0, FenceSql) THEN DropFirst(s0, FenceSqlLen) ELSE s0
        s2 == IF EndsWith(s1, Fence) THEN DropLast(s1, FenceLen) ELSE s1
    IN  RStripSemi(s2)

CleanSql(content) ==
    LET s0 == Strip(content)
        s1 == IF StartsWith(s0, FenceSql) THEN DropFirst(s0, FenceSqlLen) ELSE s0
        s2 == IF EndsWith(s1, Fence) THEN DropLast(s1, FenceLen) ELSE s1
    IN  RStripSemi(Strip(s2))

\* Variant of the generator's check that forgets upper()
GenIsSelectCaseSensitive(sql) == StartsWith(sql, KwSelect)

\* generate_sql_query's check before the warning (line 139)
GenIsSelect(sql) == StartsWith(Upper(sql), KwSelect)

\* Variant of the executor's check that treats every statement as a write
ExecIsSelectNever(query) == FALSE

\* Variant of the executor's check that treats every statement as a read
ExecIsSelectAlways(query) == TRUE

\* execute_sql_query's check (line 187)
ExecIsSelect(query) == StartsWith(Upper(Strip(query)), KwSelect)

\* main's check before the "no matching rows" message (line 319)
DisplayIsSelect(sql) == StartsWith(Upper(Strip(sql)), KwSelect)

\* ------------------------------------------------------------------------
\* Inputs: the remote model's answers
\* ------------------------------------------------------------------------
BodySelect == <<"S", "E", "L", "E", "C", "T", " ", "1">>

BodySelectLower == <<"s", "e", "l", "e", "c", "t", " ", "1">>

BodyDrop == <<"D", "R", "O", "P">>

Pieces == {FenceSql, Fence, <<";">>, <<"\n">>, BodySelect, BodySelectLower, BodyDrop}

RECURSIVE Concat(_)
Concat(ps) == IF ps = <<>> THEN <<>> ELSE Head(ps) \o Concat(Tail(ps))

\* The example of the documentation: "```sql\nSELECT 1;\n```"
FencedExample == Concat(<<FenceSql, <<"\n">>, BodySelect, <<";">>, <<"\n">>, Fence>>)

\* The same answer in a fence without a language tag: "```\nSELECT 1;\n```"
PlainFencedExample == Concat(<<Fence, <<"\n">>, BodySelect, <<";">>, <<"\n">>, Fence>>)

Responses ==
    { Concat(ps) : ps \in UNION { [1..k -> Pieces] : k \in 0..MaxPieces } }
        \cup {FencedExample, PlainFencedExample}

Question == <<"q">>

\* ------------------------------------------------------------------------
\* The SQLite file: catalog (sqlite_master) and stored rows
\* ------------------------------------------------------------------------
TableNames == { <<>>, <<"t">>, <<"a", BQ, BQ, "b">>, <<"a", BQ, "b">> }

TableCols == <<"id", "total">>

\* Catalogs: up to MaxTables tables with pairwise different names
Catalogs ==
    UNION { { [i \in 1..k |-> [name |-> f[i], cols |-> TableCols]] :
                f \in { g \in [1..k -> TableNames] :
                          \A i, j \in 1..k : i # j => g[i] # g[j] } } :
            k \in 0..MaxTables }

StoredRows == [i \in 1..MaxRows |-> <<i>>]

\* The subsequence of rows at the positions in S
Pick(rows, S) ==
    LET F[i \in 0..Len(rows)] ==
            IF i = 0 THEN <<>>
            ELSE IF i \in S THEN Append(F[i - 1], rows[i]) ELSE F[i - 1]
    IN  F[Len(rows)]

SubSeqsOf(rows) == { Pick(rows, S) : S \in SUBSET (1..Len(rows)) }

\* SQLite reads the `...` identifier of "PRAGMA table_info(`name`)": a doubled
\* backquote inside stands for one backquote, a single one ends the
\* identifier, and anything left after it is a syntax error.
RECURSIVE ScanQuoted(_, _, _)
ScanQuoted(z, i, acc) ==
    IF i > Len(z) THEN [err |-> TRUE, ident |-> <<>>]
    ELSE IF z[i] = BQ
         THEN IF i + 1 <= Len(z) /\ z[i + 1] = BQ
              THEN ScanQuoted(z, i + 2, Append(acc, BQ))
              ELSE IF i = Len(z) THEN [err |-> FALSE, ident |-> acc]
                                 ELSE [err |-> TRUE, ident |-> <<>>]
         ELSE ScanQuoted(z, i + 1, Append(acc, z[i]))

\* cursor.execute(f"PRAGMA table_info(`{table_name}`);") and fetchall,
\* reduced to the column names: the columns of the table so named, no row
\* for an unknown table, an error for malformed text (lines 60-63).
PragmaTableInfo(cat, name) ==
    LET q == ScanQuoted(<<BQ>> \o name \o <<BQ>>, 2, <<>>)
        hits == { i \in 1..Len(cat) : cat[i].name = q.ident }
    IN  IF q.err THEN [err |-> TRUE, cols |-> <<>>]
        ELSE IF hits = {} THEN [err |-> FALSE, cols |-> <<>>]
        ELSE [err |-> FALSE, cols |-> cat[CHOOSE i \in hits : TRUE].cols]

\* get_db_schema (lines 28-72).  fault is what the catalog query does:
\* "none", "sqlite" (sqlite3.Error) or "other" (another exception).  A
\* sqlite3.Error raised by the catalog query leaves `tables` unbound, so the
\* handler at line 67 raises in turn and the exception leaves the function.
GetDbSchema(cat, fault) ==
    IF fault = "sqlite"
    THEN [raised |-> TRUE, table_name |-> None, columns |-> None, msgs |-> <<>>]
    ELSE IF fault = "other"
    THEN [raised |-> FALSE, table_name |-> None, columns |-> None,
          msgs |-> <<"err_unexpected_schema">>]
    ELSE IF cat = <<>>
    THEN [raised |-> FALSE, table_name |-> None, columns |-> None,
          msgs |-> <<"err_no_tables">>]
    ELSE LET tn == cat[1].name
             info == PragmaTableInfo(cat, tn)
         IN  IF info.err
             THEN [raised |-> FALSE, table_name |-> None, columns |-> None,
                   msgs |-> <<"using_table", "err_sqlite_schema">>]
             ELSE [raised |-> FALSE, table_name |-> Some(tn),
                   columns |-> Some(info.cols), msgs |-> <<"using_table">>]

\* Variant of main's check that never returns early
SchemaFailedNever(tn, cols) == FALSE

\* main, line 258: if not table_name or not columns
SchemaFailed(tn, cols) == Falsy(tn) \/ Falsy(cols)

\* Variant of main's check that never returns early
GenFailedNever(sql) == FALSE

\* main, line 297: if not sql_query
GenFailed(sql) == Falsy(sql)

\* Variant of the error handlers that forgets conn.close()
CloseOnErrorForgotten(conn) == conn

\* The error handlers' "if conn: conn.close()" (lines 206-207, 212-213,
\* 264, 269)
CloseOnError(conn) == IF conn = "open" THEN "closed" ELSE conn

\* Variant of the row line that prints the 0-based index
RowLineZeroBased(i, row) == [index |-> i, row |-> row]

\* main, line 315: print(f"Row {i+1}: {row}") for the i-th (0-based) row
RowLine(i, row) == [index |-> i + 1, row |-> row]

\* main, lines 314-315: one line per row of the result, in result order
RowLines(rows) == [k \in 1..Len(rows) |-> RowLine(k - 1, rows[k])]

\* What SQLite does with a statement (cursor.execute at line 184): it fails
\* with sqlite3.Error or with another exception, or it runs.  A statement
\* whose first keyword is SELECT only reads: it yields some of the stored
\* rows and writes nothing.  Any other statement may yield rows (VALUES,
\* WITH ... SELECT, RETURNING) and leaves some of the stored rows; its
\* change is either made at once (auto: DDL runs outside a transaction) or
\* pending until commit.
SqliteReads(query) == StartsWith(Upper(LStrip(query)), KwSelect)

SqliteExecute(query, rows) ==
    { [err |-> e, rows |-> <<>>, after |-> rows, auto |-> FALSE] : e \in {"sqlite", "other"} }
    \cup
    ( IF SqliteReads(query)
      THEN { [err |-> "none", rows |-> r, after |-> rows, auto |-> FALSE] :
                r \in SubSeqsOf(rows) }
      ELSE { [err |-> "none", rows |-> r, after |-> a, auto |-> au] :
                r \in {<<>>, rows}, a \in SubSeqsOf(rows), au \in BOOLEAN } )

\* ------------------------------------------------------------------------
\* State
\* ------------------------------------------------------------------------
VARIABLES
    pc,           \* position of the run in the script
    fileExists,   \* os.path.exists(database_path)
    apiKeySet,    \* GROQ_API_KEY is not the placeholder
    catalog,      \* the tables of the database file
    dbRows,       \* the committed rows of the database file
    schemaConn,   \* main's connection (conn, line 245): "none", "open", "closed"
    execConn,     \* execute_sql_query's connection (conn, line 177)
    table_name,   \* main's table_name
    columns,      \* main's columns
    user_input,   \* main's user_input
    response,     \* the content of the model's answer
    sql_query,    \* main's sql_query, the result of generate_sql_query
    warned,       \* the statement named in the "might modify data" warning
    query,        \* the argument of execute_sql_query
    executed,     \* the text given to cursor.execute at line 184
    cursorRows,   \* the rows the executed statement produced
    branch,       \* the branch taken at line 189: "none", "select", "commit"
    execErr,      \* the exception raised inside execute_sql_query's try
    commits,      \* number of conn.commit() calls
    results,      \* main's results
    out,          \* the printed messages, in order
    printedRows,  \* the printed "Row k: ..." lines, in order
    requests,     \* number of requests sent to the remote service
    stages        \* the stages started so far, in order

vars == <<pc, fileExists, apiKeySet, catalog, dbRows, schemaConn, execConn,
          table_name, columns, user_input, response, sql_query, warned, query,
          executed, cursorRows, branch, execErr, commits, results, out,
          printedRows, requests, stages>>

dbVars == <<fileExists, apiKeySet, catalog>>

schemaVars == <<table_name, columns>>

genVars == <<response, sql_query, warned, requests>>

execVars == <<query, executed, cursorRows, branch, execErr, commits, results, execConn, dbRows>>

Init ==
    /\ pc = "boot"
    /\ fileExists \in BOOLEAN
    /\ apiKeySet \in BOOLEAN
    /\ catalog \in (IF fileExists THEN Catalogs ELSE {<<>>})
    /\ dbRows = (IF fileExists /\ catalog # <<>> THEN StoredRows ELSE <<>>)
    /\ schemaConn = "none"
    /\ execConn = "none"
    /\ table_name = None
    /\ columns = None
    /\ user_input = None
    /\ response = None
    /\ sql_query = None
    /\ warned = None
    /\ query = None
    /\ executed = None
    /\ cursorRows = <<>>
    /\ branch = "none"
    /\ execErr = "none"
    /\ commits = 0
    /\ results = None
    /\ out = <<>>
    /\ printedRows = <<>>
    /\ requests = 0
    /\ stages = <<>>

\* ------------------------------------------------------------------------
\* Actions
\* ------------------------------------------------------------------------
\* Module level, lines 15-26: the client is built, or the process exits.
ClientInit ==
    /\ pc = "boot"
    /\ \E ok \in BOOLEAN :
          IF ok THEN /\ out' = Append(out, "client_ok")
                     /\ pc' = "main"
                ELSE /\ out' = Append(out, "err_client_init")
                     /\ pc' = "done"
    /\ UNCHANGED <<dbVars, schemaVars, genVars, execVars, schemaConn,
                   user_input, printedRows, stages>>

\* main, lines 233-242: the file must exist; a missing key only warns.
MainCheckArgs ==
    /\ pc = "main"
    /\ IF ~fileExists
       THEN /\ out' = Append(out, "err_file_not_found")
            /\ pc' = "done"
       ELSE /\ out' = (IF apiKeySet THEN out ELSE Append(out, "warn_api_key"))
            /\ pc' = "connect"
    /\ UNCHANGED <<dbVars, schemaVars, genVars, execVars, schemaConn,
                   user_input, printedRows, stages>>

\* main, lines 245-249 (and 261-265 when sqlite3.connect raises).
MainConnect ==
    /\ pc = "connect"
    /\ stages' = Append(stages, "schema")
    /\ \E ok \in BOOLEAN :
          IF ok THEN /\ schemaConn' = "open"
                     /\ out' = out
                     /\ pc' = "schema"
                ELSE /\ schemaConn' = CloseOnError(schemaConn)
                     /\ out' = Append(out, "err_sqlite_setup")
                     /\ pc' = "done"
    /\ UNCHANGED <<dbVars, schemaVars, genVars, execVars, user_input, printedRows>>

\* main, line 253: the call of get_db_schema (and 266-270 when it raises).
MainGetSchema ==
    /\ pc = "schema"
    /\ \E fault \in {"none", "sqlite", "other"} :
          LET r == GetDbSchema(catalog, fault)
          IN  IF r.raised
              THEN /\ out' = Append(out, "err_unexpected_setup")
                   /\ schemaConn' = CloseOnError(schemaConn)
                   /\ UNCHANGED schemaVars
                   /\ pc' = "done"
              ELSE /\ out' = out \o r.msgs
                   /\ table_name' = r.table_name
                   /\ columns' = r.columns
                   /\ UNCHANGED schemaConn
                   /\ pc' = "schema_close"
    /\ UNCHANGED <<dbVars, genVars, execVars, user_input, printedRows, stages>>

\* main, lines 255-259: close the connection, return if the schema is missing.
MainCloseSchema ==
    /\ pc = "schema_close"
    /\ schemaConn' = "closed"
    /\ pc' = (IF SchemaFailed(table_name, columns) THEN "done" ELSE "input")
    /\ UNCHANGED <<dbVars, schemaVars, genVars, execVars, user_input, out,
                   printedRows, stages>>

\* main, lines 273-290: the question comes from -q or from one line of input.
MainGetInput ==
    /\ pc = "input"
    /\ \E src \in {"flag", "text", "empty", "eof", "interrupt"} :
          CASE src = "flag" ->
                  /\ user_input' = Some(Question)
                  /\ out' = Append(out, "using_query")
                  /\ pc' = "generate"
            [] src = "text" ->
                  /\ user_input' = Some(Question)
                  /\ out' = out
                  /\ pc' = "generate"
            [] src = "empty" ->
                  /\ user_input' = Some(<<>>)
                  /\ out' = Append(out, "no_input")
                  /\ pc' = "done"
            [] src = "eof" ->
                  /\ user_input' = user_input
                  /\ out' = Append(out, "input_closed")
                  /\ pc' = "done"
            [] src = "interrupt" ->
                  /\ user_input' = user_input
                  /\ out' = Append(out, "cancelled")
                  /\ pc' = "done"
    /\ UNCHANGED <<dbVars, schemaVars, genVars, execVars, schemaConn,
                   printedRows, stages>>

\* generate_sql_query, lines 93-119: the prompt is built and the one request
\* is sent.
GenSendRequest ==
    /\ pc = "generate"
    /\ stages' = Append(stages, "generate")
    /\ requests' = requests + 1
    /\ out' = Append(out, "sending")
    /\ pc' = "inflight"
    /\ UNCHANGED <<dbVars, schemaVars, execVars, schemaConn, user_input,
                   response, sql_query, warned, printedRows>>

\* generate_sql_query, lines 126-149, for an answer with the given content:
\* the cleaned statement, the warning and the printed messages.
GenerateResult(content) ==
    LET cleaned == CleanSql(content)
        warns == ~GenIsSelect(cleaned)
    IN  [ sql    |-> IF cleaned = <<>> THEN None ELSE Some(cleaned),
          warned |-> IF warns THEN Some(cleaned) ELSE None,
          msgs   |-> (IF warns THEN <<"warn_modify">> ELSE <<>>)
                     \o (IF cleaned = <<>> THEN <<"err_empty_query">>
                                           ELSE <<"generated">>) ]

\* generate_sql_query, lines 119-158, and main, lines 294-299: the answer
\* arrives (or the call raises), is cleaned and checked.  Without a key the
\* service rejects the request.
GenReceive ==
    /\ pc = "inflight"
    /\ \E kind \in {"groq_error", "other_error", "content"} :
       \E content \in (IF kind = "content" THEN Responses ELSE {<<>>}) :
          /\ kind = "content" => apiKeySet
          /\ LET r == IF kind = "content" THEN GenerateResult(content)
                      ELSE [sql |-> None, warned |-> None,
                            msgs |-> <<IF kind = "groq_error" THEN "err_groq"
                                       ELSE "err_unexpected_gen">>]
             IN  /\ response' = (IF kind = "content" THEN Some(content) ELSE None)
                 /\ sql_query' = r.sql
                 /\ warned' = r.warned
                 /\ IF GenFailed(r.sql)
                    THEN /\ out' = out \o r.msgs \o <<"fail_generate">>
                         /\ pc' = "done"
                    ELSE /\ out' = out \o r.msgs
                         /\ pc' = "execute"
    /\ UNCHANGED <<dbVars, schemaVars, execVars, schemaConn, user_input,
                   requests, printedRows, stages>>

\* main, line 303, and execute_sql_query, lines 172-182: the statement is
\* passed on, a connection is opened.
ExecOpen ==
    /\ pc = "execute"
    /\ stages' = Append(stages, "execute")
    /\ query' = sql_query
    /\ IF Falsy(sql_query)
       THEN /\ out' = Append(out, "err_no_query")
            /\ UNCHANGED <<execConn, execErr>>
            /\ pc' = "display"
       ELSE \E ok \in BOOLEAN :
              IF ok THEN /\ execConn' = "open"
                         /\ out' = Append(out, "executing")
                         /\ UNCHANGED execErr
                         /\ pc' = "executing"
                    ELSE /\ execConn' = CloseOnError(execConn)
                         /\ execErr' = "sqlite"
                         /\ out' = out \o <<"err_sqlite_exec", "failed_query">>
                         /\ pc' = "display"
    /\ UNCHANGED <<dbVars, schemaVars, genVars, schemaConn, user_input,
                   executed, cursorRows, branch, commits, results, dbRows,
                   printedRows>>

\* execute_sql_query, lines 184-214: execute, fetch or commit, close, return.
ExecRun ==
    /\ pc = "executing"
    /\ executed' = query
    /\ \E o \in SqliteExecute(query.val, dbRows) :
       \E commitOk \in BOOLEAN :
          /\ (o.err # "none" \/ o.auto \/ ExecIsSelect(query.val)) => commitOk
          /\ cursorRows' = o.rows
          /\ CASE o.err = "sqlite" ->
                    /\ execErr' = "sqlite"
                    /\ out' = out \o <<"err_sqlite_exec", "failed_query">>
                    /\ execConn' = CloseOnError(execConn)
                    /\ results' = None
                    /\ UNCHANGED <<branch, commits, dbRows>>
               [] o.err = "other" ->
                    /\ execErr' = "other"
                    /\ out' = Append(out, "err_unexpected_exec")
                    /\ execConn' = CloseOnError(execConn)
                    /\ results' = None
                    /\ UNCHANGED <<branch, commits, dbRows>>
               [] o.err = "none" /\ ExecIsSelect(query.val) ->
                    \* fetchall; a change never committed is dropped by close
                    /\ branch' = "select"
                    /\ results' = Some(o.rows)
                    /\ out' = Append(out, "fetched")
                    /\ dbRows' = (IF o.auto THEN o.after ELSE dbRows)
                    /\ execConn' = "closed"
                    /\ UNCHANGED <<execErr, commits>>
               [] o.err = "none" /\ ~ExecIsSelect(query.val) ->
                    /\ branch' = "commit"
                    /\ commits' = commits + 1
                    /\ IF commitOk
                       THEN /\ dbRows' = o.after
                            /\ results' = Some(<<>>)
                            /\ out' = Append(out, "committed")
                            /\ execConn' = "closed"
                            /\ UNCHANGED execErr
                       ELSE /\ dbRows' = dbRows
                            /\ results' = None
                            /\ execErr' = "sqlite"
                            /\ out' = out \o <<"err_sqlite_exec", "failed_query">>
                            /\ execConn' = CloseOnError(execConn)
    /\ pc' = "display"
    /\ UNCHANGED <<dbVars, schemaVars, genVars, schemaConn, user_input, query,
                   printedRows, stages>>

\* main, lines 306-325: the rows, or the final message.
MainDisplay ==
    /\ pc = "display"
    /\ IF results.some
       THEN IF results.val # <<>>
            THEN /\ out' = Append(out, "results_header")
                 /\ printedRows' = RowLines(results.val)
            ELSE /\ out' = out \o <<"results_header">>
                             \o (IF DisplayIsSelect(sql_query.val)
                                 THEN <<"no_rows">> ELSE <<>>)
                 /\ UNCHANGED printedRows
       ELSE /\ out' = Append(out, "exec_failed")
            /\ UNCHANGED printedRows
    /\ pc' = "done"
    /\ UNCHANGED <<dbVars, schemaVars, genVars, execVars, schemaConn,
                   user_input, stages>>

Next ==
    \/ ClientInit
    \/ MainCheckArgs
    \/ MainConnect
    \/ MainGetSchema
    \/ MainCloseSchema
    \/ MainGetInput
    \/ GenSendRequest
    \/ GenReceive
    \/ ExecOpen
    \/ ExecRun
    \/ MainDisplay

Spec == Init /\ [][Next]_vars

\* ------------------------------------------------------------------------
\* Properties
\* ------------------------------------------------------------------------
Printed(m) == \E i \in 1..Len(out) : out[i] = m

IsPrefix(s, t) == Len(s) <= Len(t) /\ SubSeq(t, 1, Len(s)) = s

Started(stage) == \E i \in 1..Len(stages) : stages[i] = stage

\* True when the text has no character other than whitespace
IsBlank(s) == \A i \in 1..Len(s) : s[i] \in Whitespace

\* "starts with SELECT (case-insensitive, after trimming)"
IsSelectText(q) == StartsWith(Upper(Strip(q)), KwSelect)

Pipeline == <<"schema", "generate", "execute">>

FailureMessages ==
    { "err_client_init", "err_file_not_found", "err_sqlite_setup",
      "err_unexpected_setup", "err_no_tables", "err_sqlite_schema",
      "err_unexpected_schema", "no_input", "input_closed", "cancelled",
      "err_groq", "err_unexpected_gen", "err_empty_query", "fail_generate",
      "err_no_query", "err_sqlite_exec", "err_unexpected_exec", "exec_failed" }

\* C1: for a database with zero tables get_db_schema reports failure and
\* returns no table name and no columns, and generate_sql_query is never
\* called; in every run the remote request is sent only after a table name
\* and a column list that are not None have been obtained.
SchemaBeforeRequest ==
    /\ (requests > 0 \/ Started("generate")) => (table_name.some /\ columns.some)
    /\ (fileExists /\ catalog = <<>>) =>
          /\ requests = 0
          /\ ~Started("generate")
          /\ table_name = None
          /\ columns = None
          /\ pc \in {"schema_close", "input", "done"} /\ schemaConn # "none" =>
                \E m \in FailureMessages : Printed(m)

\* C1 happens: a run over a database without tables has ended after
\* get_db_schema printed that it found no table.
ZeroTablesRunEnded ==
    /\ pc = "done"
    /\ fileExists
    /\ catalog = <<>>
    /\ Printed("err_no_tables")
    /\ schemaConn = "closed"

\* C2: when the cleaned statement is empty or only whitespace,
\* generate_sql_query returns None and main never calls execute_sql_query;
\* execute_sql_query is only ever called with, and only ever executes, text
\* that has a character other than whitespace.
ExecOnlyNonBlank ==
    /\ (response.some /\ IsBlank(CleanSql(response.val))) =>
          (sql_query = None /\ ~Started("execute") /\ query = None)
    /\ Started("execute") => (query.some /\ ~IsBlank(query.val))
    /\ executed.some => ~IsBlank(executed.val)

\* C2 happens: a non-empty answer was cleaned to nothing and the run ended
\* with the generation failure.
BlankAnswerRejected ==
    /\ pc = "done"
    /\ response.some
    /\ response.val # <<>>
    /\ CleanSql(response.val) = <<>>
    /\ Printed("err_empty_query")
    /\ Printed("fail_generate")

\* C3: the statement returned by generate_sql_query does not begin with a
\* ``` fence, does not end with a ``` fence and does not end with a
\* semicolon.
CleanedHasNoFenceNoSemicolon ==
    sql_query.some =>
        /\ ~StartsWith(sql_query.val, Fence)
        /\ ~EndsWith(sql_query.val, Fence)
        /\ ~EndsWith(sql_query.val, <<";">>)

\* C4: when execute_sql_query is called with text that starts with SELECT,
\* no commit is issued and the stored rows stay what they were.
SelectNeverCommits ==
    (query.some /\ IsSelectText(query.val)) =>
        (commits = 0 /\ branch # "commit" /\ dbRows = StoredRows)

\* C4 happens: a SELECT statement was executed and returned rows.
SelectExecuted ==
    /\ pc = "done"
    /\ executed.some
    /\ IsSelectText(executed.val)
    /\ branch = "select"
    /\ results.some
    /\ results.val # <<>>

\* C5: when execute_sql_query is called with non-empty text that does not
\* start with SELECT and nothing inside its try block raises, it has
\* committed once and returns the empty list, not None, whether or not the
\* statement produced rows.
NonSelectCommitsAndReturnsEmpty ==
    ( /\ pc \in {"display", "done"}
      /\ query.some
      /\ query.val # <<>>
      /\ ~IsSelectText(query.val)
      /\ executed.some
      /\ execErr = "none" ) =>
        (commits = 1 /\ branch = "commit" /\ results = Some(<<>>))

\* C5 happens: a statement other than SELECT produced rows, was committed,
\* and the executor returned the empty list.
NonSelectWithRowsCommitted ==
    /\ pc = "done"
    /\ executed.some
    /\ ~IsSelectText(executed.val)
    /\ cursorRows # <<>>
    /\ execErr = "none"
    /\ results = Some(<<>>)
    /\ commits = 1

\* C6: a connection is open only inside the step that opened it: main's
\* connection only while the schema is read, execute_sql_query's only until
\* it returns; so the two are never open together, and none is open while
\* the request is in flight or when the run has ended.
ConnectionsClosed ==
    /\ schemaConn = "open" => pc \in {"schema", "schema_close"}
    /\ execConn = "open" => pc = "executing"
    /\ ~(schemaConn = "open" /\ execConn = "open")
    /\ pc \in {"inflight", "done"} => (schemaConn # "open" /\ execConn # "open")

\* C6 happens: execute_sql_query returned after an execution error and both
\* connections opened in the run are closed.
ClosedAfterExecError ==
    /\ pc = "display"
    /\ executed.some
    /\ execErr \in {"sqlite", "other"}
    /\ execConn = "closed"
    /\ schemaConn = "closed"

\* C7: the stages run in the order schema read, generation, execution, each
\* at most once, with exactly one request per generation; generation starts
\* only after a usable schema was read and execution only after a
\* non-empty statement was generated.
PipelineOrder ==
    /\ IsPrefix(stages, Pipeline)
    /\ requests = (IF Started("generate") THEN 1 ELSE 0)
    /\ Started("generate") =>
          /\ table_name.some /\ table_name.val # <<>>
          /\ columns.some /\ columns.val # <<>>
    /\ Started("execute") => (sql_query.some /\ sql_query.val # <<>>)

\* C7 happens: generation failed after the one request and the run ended
\* without starting the execution.
GenerationFailedRunEnded ==
    /\ pc = "done"
    /\ stages = <<"schema", "generate">>
    /\ requests = 1
    /\ sql_query = None
    /\ executed = None

\* C8: a run that ends without a successful execution has printed a
\* failure diagnostic; no run ends silently.
NoSilentExit ==
    pc = "done" =>
        \/ /\ results.some
           /\ (printedRows # <<>> \/ Printed("committed") \/ Printed("no_rows"))
        \/ \E m \in FailureMessages : Printed(m)

\* C9: on a successful run the executor ran, once, exactly the statement the
\* generator returned, and main printed one line per row of the result, in
\* order, the k-th line carrying the index k.
RunsStatementAndNumbersRows ==
    (pc = "done" /\ results.some) =>
        /\ query = sql_query
        /\ executed = sql_query
        /\ response.some /\ sql_query = Some(CleanSql(response.val))
        /\ Len(SelectSeq(stages, LAMBDA st : st = "execute")) = 1
        /\ Len(printedRows) = Len(results.val)
        /\ \A k \in 1..Len(results.val) :
              printedRows[k].index = k /\ printedRows[k].row = results.val[k]

\* C9 happens: a run ended after printing at least two rows.
TwoRowsPrinted ==
    /\ pc = "done"
    /\ results.some
    /\ Len(results.val) >= 2
    /\ Len(printedRows) >= 2

\* C10 as stated: at the end of a run the executor has taken the commit
\* branch exactly when generate_sql_query warned about the statement.
CommitIffWarned ==
    pc = "done" => ((branch = "commit") <=> warned.some)

\* C10 amended: whenever the executor reaches its branch (the statement ran
\* without error) it takes the commit branch exactly when the generator
\* warned about that same statement; nothing is committed without that
\* warning, and a warned non-empty statement is still passed to the
\* executor.
ChecksAgreeAtBranch ==
    /\ branch # "none" => ((branch = "commit") <=> (warned.some /\ warned = executed))
    /\ commits > 0 => (warned.some /\ warned = executed)
    /\ (warned.some /\ warned.val # <<>> /\ pc \in {"executing", "display", "done"}) =>
          query = warned

\* C10 happens: a warned statement was executed and committed.
WarnedStatementCommitted ==
    /\ pc = "done"
    /\ warned.some
    /\ Printed("warn_modify")
    /\ branch = "commit"
    /\ executed = warned
    /\ Printed("committed")

====
